---- MODULE Spec2Model ----
(***************************************************************************)
(* The VRAM coordination core of the MCP Manager                           *)
(* (mcp-services/mcp-manager/src/services/vramManager.ts): the service     *)
(* registry `services`, the admission check of registerService, the        *)
(* explicit unload, the usage touch, the periodic idle sweep and the       *)
(* services.json dump.                                                     *)
(*                                                                         *)
(* Time is counted in minutes.  A JavaScript Map is modelled as a sequence *)
(* in insertion order; an array as a sequence (1-based).                   *)
(***************************************************************************)
EXTENDS Integers, Sequences, FiniteSets, TLC

(***************************************************************************)
(* Configuration (constructor, updateTotalVram)                            *)
(***************************************************************************)
\* updateTotalVram's fallback when no GPU data is available
DefaultTotalVramGb == 64
\* VRAM_RESERVE_GB
vramReserveGb == 4
\* UNLOAD_TIMEOUT_MINUTES, configured to one minute
unloadTimeoutMinutes == 1
\* MAX_VRAM_USAGE_GB: read by the constructor, used nowhere
maxVramUsageGb == 60
\* the Stable Diffusion service's VRAM_USAGE_GB
VRAM_USAGE_GB == 16

(***************************************************************************)
(* Bounds and input sets                                                   *)
(***************************************************************************)
\* the clock stops at MaxTime minutes
MaxTime == 2
ServiceNames == {"svc-a", "svc-b"}
ServiceUrls == {"http://a"}
ModelNames == {"m1", "m2"}
Amounts == {20, 30, 40, 70}
\* whether a write of services.json succeeds: here every write does
FsOutcomes == {TRUE}

\* the elements of a registration's `models` argument
ModelInputs == [name : ModelNames, vramUsageGb : Amounts]
\* the `models` arguments of the registrations: no model, one model of any
\* amount, or two models (of one name or of two) that together do not exceed
\* the total VRAM.  A service's model names can be exchanged without
\* changing what the manager does, so the first model is always "m1".
ModelLists ==
  {<< >>} \cup {<<x>> : x \in {y \in ModelInputs : y.name = "m1"}}
          \cup {<<p[1], p[2]>> :
                  p \in {q \in ModelInputs \X ModelInputs :
                          /\ q[1].name = "m1"
                          /\ q[1].vramUsageGb + q[2].vramUsageGb
                               <= DefaultTotalVramGb}}

\* the `models` arguments of the registrations that are interleaved
ConcModelLists ==
  {<<x>> : x \in {y \in ModelInputs :
                    y.name = "m1" /\ y.vramUsageGb \in {30, 40}}}

\* `models` arguments with an amount below zero: the register_service
\* schema (z.number()) and registerService take any number
SignedModelLists ==
  {<<[name |-> "m1", vramUsageGb |-> a]>> : a \in {-20, 40, 70}}

\* the `models` arguments of the registrations between status requests
StatusModelLists ==
  {<<[name |-> "m1", vramUsageGb |-> a]>> : a \in {-20, 10, 70}}

\* how the fetch of an unload command ends: a 2xx answer, another answer, or
\* a rejection (the service cannot be reached)
FetchOutcomes == {"ok", "notOk", "throws"}
\* whether a write of services.json succeeds, where writes can fail
FaultFsOutcomes == BOOLEAN
\* the `models` arguments of the registrations where side effects can fail
FaultModelLists ==
  {<<[name |-> "m1", vramUsageGb |-> 30]>>,
   <<[name |-> "m1", vramUsageGb |-> 40]>>}

\* the SERVICE_URL each service registers with, where services differ in it
ServiceUrl(n) == IF n = "svc-a" THEN "http://a" ELSE "http://b"

\* the last minute in which a service registers or reports usage, in the
\* runs where the sweep timer is followed to the end
LastActivity == 1
\* the `models` arguments of the registrations in those runs
LiveModelLists ==
  {<<[name |-> "m1", vramUsageGb |-> 30]>>,
   <<[name |-> "m1", vramUsageGb |-> 20],
     [name |-> "m2", vramUsageGb |-> 30]>>}

\* what the GPU probe answers: the VRAM of each controller, in GB; no
\* controller when there is no GPU data
GpuControllers == {<< >>, <<80>>}
\* the `models` arguments of the registrations on a probed GPU
GpuModelLists ==
  {<<[name |-> "m1", vramUsageGb |-> a]>> : a \in {30, 40, 70}}

\* the Stable Diffusion service: its SERVICE_NAME, its MODEL_ID and the
\* models it registers
SdServiceName == "svc-a"
MODEL_ID == "m1"
SdModels == <<[name |-> MODEL_ID, vramUsageGb |-> VRAM_USAGE_GB]>>

VARIABLES
  services,      \* this.services: Map<string, ServiceInfo>, in insertion order
  totalVramGb,   \* this.totalVramGb
  configFile,    \* services.json: whether it exists, and the array it holds
  now,           \* the wall clock, in minutes
  calls,         \* the registerService calls suspended at an await, by service name
  last,          \* what the last operation returned and sent
  unloadCall,    \* the unloadModel call suspended at `await fetch`, and its result
  snapshot,      \* the VRAMStatus the last getVRAMStatus request returned
  modelLoaded,   \* the Stable Diffusion service's this.modelLoaded
  enableAutoUnload  \* this.enableAutoUnload

vars ==
  <<services, totalVramGb, configFile, now, calls, last, unloadCall, snapshot,
    modelLoaded, enableAutoUnload>>

(***************************************************************************)
(* Helpers over sequences                                                  *)
(***************************************************************************)
RECURSIVE SumVram(_)
\* models.reduce((total, model) => total + model.vramUsageGb, 0)
SumVram(models) ==
  IF models = << >> THEN 0
  ELSE Head(models).vramUsageGb + SumVram(Tail(models))

RECURSIVE SumUsed(_)
\* Array.from(services.values()).reduce((total, s) => total + s.usedVramGb, 0)
SumUsed(svcs) ==
  IF svcs = << >> THEN 0
  ELSE Head(svcs).usedVramGb + SumUsed(Tail(svcs))

\* Array.prototype.findIndex by name, 1-based; 0 stands for -1
findIndex(seq, name) ==
  IF \E i \in 1..Len(seq) : seq[i].name = name
  THEN CHOOSE i \in 1..Len(seq) :
         /\ seq[i].name = name
         /\ \A j \in 1..(i - 1) : seq[j].name # name
  ELSE 0

\* Array.prototype.splice(index, 1)
\* splice with the bug of always removing the first element
splice_first(seq, index) == Tail(seq)

splice(seq, index) ==
  [i \in 1..(Len(seq) - 1) |-> IF i < index THEN seq[i] ELSE seq[i + 1]]

\* MapSet with the bug of pushing every registration as a new entry
MapSet_push(svcs, info) == Append(svcs, info)

\* Map.prototype.set: an existing key keeps its place, a new key goes last
MapSet(svcs, info) ==
  LET k == findIndex(svcs, info.name) IN
  IF k = 0 THEN Append(svcs, info)
  ELSE [svcs EXCEPT ![k] = info]

Max(a, b) == IF a >= b THEN a ELSE b

(***************************************************************************)
(* Persistence                                                             *)
(***************************************************************************)
\* what saveServicesToConfig serializes: name, url and the models' name and
\* vramUsageGb; lastUsed and usedVramGb are not written
serialize(svcs) ==
  [i \in 1..Len(svcs) |->
     [name   |-> svcs[i].name,
      url    |-> svcs[i].url,
      models |-> [j \in 1..Len(svcs[i].models) |->
                    [name        |-> svcs[i].models[j].name,
                     vramUsageGb |-> svcs[i].models[j].vramUsageGb]]]]

\* saveServicesToConfig with the bug of never writing
saveServicesToConfig_never(svcs, file, fsOk) == file

\* saveServicesToConfig: the file after the call; a write that throws is
\* caught and logged, and leaves the file as it was
saveServicesToConfig(svcs, file, fsOk) ==
  IF fsOk THEN [exists |-> TRUE, json |-> serialize(svcs)] ELSE file

\* loadServicesFromConfig with the bug of not summing usedVramGb again
loadServicesFromConfig_noUsage(file, t) ==
  IF ~file.exists THEN << >>
  ELSE LET servicesConfig == file.json IN
       [i \in 1..Len(servicesConfig) |->
          [name       |-> servicesConfig[i].name,
           url        |-> servicesConfig[i].url,
           models     |-> [j \in 1..Len(servicesConfig[i].models) |->
                             [name        |-> servicesConfig[i].models[j].name,
                              vramUsageGb |->
                                servicesConfig[i].models[j].vramUsageGb,
                              lastUsed    |-> t]],
           usedVramGb |-> 0]]

\* loadServicesFromConfig into an empty registry at time t: nothing when the
\* file does not exist; else one entry per service of the file, its models
\* stamped with the time of loading and its usedVramGb summed again
loadServicesFromConfig(file, t) ==
  IF ~file.exists THEN << >>
  ELSE LET servicesConfig == file.json IN
       [i \in 1..Len(servicesConfig) |->
          [name       |-> servicesConfig[i].name,
           url        |-> servicesConfig[i].url,
           models     |-> [j \in 1..Len(servicesConfig[i].models) |->
                             [name        |-> servicesConfig[i].models[j].name,
                              vramUsageGb |->
                                servicesConfig[i].models[j].vramUsageGb,
                              lastUsed    |-> t]],
           usedVramGb |-> SumVram(servicesConfig[i].models)]]

(***************************************************************************)
(* getVRAMStatus                                                           *)
(***************************************************************************)
\* the GPU probe has no data: updateTotalVram falls back to the default
updateTotalVram == DefaultTotalVramGb

RECURSIVE SumControllers(_)
\* gpuData.controllers.reduce((total, gpu) => total + gpu.vram / 1024, 0)
SumControllers(controllers) ==
  IF controllers = << >> THEN 0
  ELSE Head(controllers) + SumControllers(Tail(controllers))

\* updateTotalVram when the probe answers with these controllers
updateTotalVramOf(controllers) ==
  IF Len(controllers) > 0 THEN SumControllers(controllers)
  ELSE DefaultTotalVramGb

\* the status with the bug of leaving the reserve out of what is available
getVRAMStatus_noReserve(svcs, total) ==
  LET usedVramGb == SumUsed(svcs) IN
  [totalVramGb     |-> total,
   usedVramGb      |-> usedVramGb,
   availableVramGb |-> Max(0, total - usedVramGb),
   services        |-> [i \in 1..Len(svcs) |->
                          [name       |-> svcs[i].name,
                           usedVramGb |-> svcs[i].usedVramGb,
                           models     |-> [j \in 1..Len(svcs[i].models) |->
                                             svcs[i].models[j].name]]]]

\* the part of getVRAMStatus after `await this.updateTotalVram()`
getVRAMStatus(svcs, total) ==
  LET usedVramGb == SumUsed(svcs) IN
  [totalVramGb     |-> total,
   usedVramGb      |-> usedVramGb,
   availableVramGb |-> Max(0, total - usedVramGb - vramReserveGb),
   services        |-> [i \in 1..Len(svcs) |->
                          [name       |-> svcs[i].name,
                           usedVramGb |-> svcs[i].usedVramGb,
                           models     |-> [j \in 1..Len(svcs[i].models) |->
                                             svcs[i].models[j].name]]]]

(***************************************************************************)
(* registerService                                                         *)
(***************************************************************************)
\* the ServiceInfo registerService builds
\* newServiceInfo with the bug of leaving the used total at zero
newServiceInfo_noUsage(serviceName, serviceUrl, models, t) ==
  [name       |-> serviceName,
   url        |-> serviceUrl,
   models     |-> [i \in 1..Len(models) |->
                     [name        |-> models[i].name,
                      vramUsageGb |-> models[i].vramUsageGb,
                      lastUsed    |-> t]],
   usedVramGb |-> 0]

newServiceInfo(serviceName, serviceUrl, models, t) ==
  [name       |-> serviceName,
   url        |-> serviceUrl,
   models     |-> [i \in 1..Len(models) |->
                     [name        |-> models[i].name,
                      vramUsageGb |-> models[i].vramUsageGb,
                      lastUsed    |-> t]],
   usedVramGb |-> SumVram(models)]

\* registerAccepts with the bug of checking the request against the limit
\* alone, not against what the other services already use
registerAccepts_limitOnly(status, models) ==
  ~(SumVram(models) > status.totalVramGb - vramReserveGb)

\* registerAccepts with the bug of refusing a request that needs exactly
\* what is available
registerAccepts_strict(status, models) ==
  ~(SumVram(models) >= status.availableVramGb)

\* the capacity check against the status read before
registerAccepts(status, models) ==
  ~(SumVram(models) > status.availableVramGb)

\* registerCommit with the bug of giving the registration up when
\* services.json cannot be written
registerCommit_unwind(status, serviceName, serviceUrl, models, fsOk) ==
  IF registerAccepts(status, models) /\ fsOk
  THEN /\ services' = MapSet(services,
                         newServiceInfo(serviceName, serviceUrl, models, now))
       /\ configFile' = saveServicesToConfig(services', configFile, fsOk)
       /\ last' = [op |-> "register", service |-> serviceName, model |-> "",
                   success |-> TRUE, freedVramGb |-> 0,
                   notified |-> << >>, saves |-> 1,
                   required |-> SumVram(models),
                   available |-> status.availableVramGb]
  ELSE /\ UNCHANGED <<services, configFile>>
       /\ last' = [op |-> "register", service |-> serviceName, model |-> "",
                   success |-> FALSE, freedVramGb |-> 0,
                   notified |-> << >>, saves |-> 0,
                   required |-> SumVram(models),
                   available |-> status.availableVramGb]

\* the part of registerService after `await this.getVRAMStatus()`
registerCommit(status, serviceName, serviceUrl, models, fsOk) ==
  IF registerAccepts(status, models)
  THEN /\ services' = MapSet(services,
                         newServiceInfo(serviceName, serviceUrl, models, now))
       /\ configFile' = saveServicesToConfig(services', configFile, fsOk)
       /\ last' = [op |-> "register", service |-> serviceName, model |-> "",
                   success |-> TRUE, freedVramGb |-> 0,
                   notified |-> << >>, saves |-> 1,
                   required |-> SumVram(models),
                   available |-> status.availableVramGb]
  ELSE /\ UNCHANGED <<services, configFile>>
       /\ last' = [op |-> "register", service |-> serviceName, model |-> "",
                   success |-> FALSE, freedVramGb |-> 0,
                   notified |-> << >>, saves |-> 0,
                   required |-> SumVram(models),
                   available |-> status.availableVramGb]

(***************************************************************************)
(* unloadModelInternal                                                     *)
(***************************************************************************)
\* unloadModelInternal with the bug of reporting success for a model the
\* service does not hold
unloadModelInternal_lenient(svcs, modelName, serviceName) ==
  LET s == findIndex(svcs, serviceName) IN
  IF s = 0
  THEN [services |-> svcs, success |-> FALSE, freedVramGb |-> 0,
        notified |-> << >>]
  ELSE
    LET service    == svcs[s]
        modelIndex == findIndex(service.models, modelName)
    IN
    IF modelIndex = 0
    THEN [services |-> svcs, success |-> TRUE, freedVramGb |-> 0,
          notified |-> << >>]
    ELSE
      LET freedVramGb == service.models[modelIndex].vramUsageGb
          updated == [service EXCEPT
                        !.models = splice(service.models, modelIndex),
                        !.usedVramGb = service.usedVramGb - freedVramGb]
      IN
      [services    |-> [svcs EXCEPT ![s] = updated],
       success     |-> TRUE,
       freedVramGb |-> freedVramGb,
       notified    |-> <<[url |-> service.url, model_name |-> modelName]>>]

\* unloadModelInternal with the bug of sending the unload command before it
\* looks the model up
unloadModelInternal_eager(svcs, modelName, serviceName) ==
  LET s == findIndex(svcs, serviceName) IN
  IF s = 0
  THEN [services |-> svcs, success |-> FALSE, freedVramGb |-> 0,
        notified |-> << >>]
  ELSE
    LET service    == svcs[s]
        modelIndex == findIndex(service.models, modelName)
    IN
    IF modelIndex = 0
    THEN [services |-> svcs, success |-> FALSE, freedVramGb |-> 0,
          notified |-> <<[url |-> service.url, model_name |-> modelName]>>]
    ELSE
      LET freedVramGb == service.models[modelIndex].vramUsageGb
          updated == [service EXCEPT
                        !.models = splice(service.models, modelIndex),
                        !.usedVramGb = service.usedVramGb - freedVramGb]
      IN
      [services    |-> [svcs EXCEPT ![s] = updated],
       success     |-> TRUE,
       freedVramGb |-> freedVramGb,
       notified    |-> <<[url |-> service.url, model_name |-> modelName]>>]

\* the synchronous part of unloadModelInternal, up to the fetch it sends:
\* the registry after it, the result it will return and the unload command
\* it sends (none when the service or the model is not found)
unloadModelInternal(svcs, modelName, serviceName) ==
  LET s == findIndex(svcs, serviceName) IN
  IF s = 0
  THEN [services |-> svcs, success |-> FALSE, freedVramGb |-> 0,
        notified |-> << >>]
  ELSE
    LET service    == svcs[s]
        modelIndex == findIndex(service.models, modelName)
    IN
    IF modelIndex = 0
    THEN [services |-> svcs, success |-> FALSE, freedVramGb |-> 0,
          notified |-> << >>]
    ELSE
      LET freedVramGb == service.models[modelIndex].vramUsageGb
          updated == [service EXCEPT
                        !.models = splice(service.models, modelIndex),
                        !.usedVramGb = service.usedVramGb - freedVramGb]
      IN
      [services    |-> [svcs EXCEPT ![s] = updated],
       success     |-> TRUE,
       freedVramGb |-> freedVramGb,
       notified    |-> <<[url |-> service.url, model_name |-> modelName]>>]

(***************************************************************************)
(* autoUnloadInactiveModels                                                *)
(***************************************************************************)
\* minutesSinceLastUse > this.unloadTimeoutMinutes
\* isInactive with the bug of finding no model inactive
isInactive_never(model, t) == FALSE

isInactive(model, t) == t - model.lastUsed > unloadTimeoutMinutes

RECURSIVE autoUnloadLoop(_, _, _, _, _)
\* the two nested for-of loops: s and i are the iterators' positions in
\* services and in the current service's models array; the array iterator
\* reads the live array, which unloadModelInternal splices
autoUnloadLoop(svcs, s, i, t, acc) ==
  IF s > Len(svcs) THEN [services |-> svcs, acc |-> acc]
  ELSE IF i > Len(svcs[s].models) THEN autoUnloadLoop(svcs, s + 1, 1, t, acc)
  ELSE
    LET model == svcs[s].models[i] IN
    IF isInactive(model, t)
    THEN LET rest(r) ==
               autoUnloadLoop(r.services, s, i + 1, t,
                 [freedVramGb |-> acc.freedVramGb + r.freedVramGb,
                  notified    |-> acc.notified \o r.notified,
                  saves       |-> acc.saves + (IF r.success THEN 1 ELSE 0)])
         IN
         \* the result of the call, evaluated once
         CHOOSE out \in
           {rest(r) :
              r \in {unloadModelInternal(svcs, model.name, svcs[s].name)}} :
             TRUE
    ELSE autoUnloadLoop(svcs, s, i + 1, t, acc)

autoUnloadInactiveModels(svcs, t) ==
  autoUnloadLoop(svcs, 1, 1, t,
                 [freedVramGb |-> 0, notified |-> << >>, saves |-> 0])

(***************************************************************************)
(* State                                                                   *)
(***************************************************************************)
NoCall == [pc |-> "idle"]
\* there is no services.json
NoFile == [exists |-> FALSE]
\* no getVRAMStatus request was answered yet
NoStatus == [totalVramGb |-> 0, usedVramGb |-> 0, availableVramGb |-> 0,
             services |-> << >>]
NoOp == [op |-> "none", service |-> "", model |-> "", success |-> TRUE,
         freedVramGb |-> 0, notified |-> << >>, saves |-> 0,
         required |-> 0, available |-> 0]

\* a fresh manager that found no services.json to load; totalVramGb is 0
\* until the first probe answers
Init ==
  /\ services = << >>
  /\ totalVramGb = 0
  /\ configFile = NoFile
  /\ now = 0
  /\ calls = [n \in ServiceNames |-> NoCall]
  /\ last = NoOp
  /\ unloadCall = NoCall
  /\ snapshot = NoStatus
  /\ modelLoaded = FALSE
  /\ enableAutoUnload = TRUE

(***************************************************************************)
(* Operations, each run to completion                                      *)
(***************************************************************************)
\* registerService with nothing else running between its awaits
RegisterService(serviceName, serviceUrl, models, fsOk) ==
  /\ totalVramGb' = updateTotalVram
  /\ registerCommit(getVRAMStatus(services, totalVramGb'),
                    serviceName, serviceUrl, models, fsOk)
  /\ UNCHANGED <<now, calls, unloadCall, snapshot, modelLoaded,
                 enableAutoUnload>>

\* unloadModel
UnloadModel(modelName, serviceName, fsOk) ==
  LET r == unloadModelInternal(services, modelName, serviceName) IN
  /\ services' = r.services
  /\ configFile' = IF r.success
                   THEN saveServicesToConfig(r.services, configFile, fsOk)
                   ELSE configFile
  /\ last' = [op |-> "unload", service |-> serviceName, model |-> modelName,
              success |-> r.success, freedVramGb |-> r.freedVramGb,
              notified |-> r.notified,
              saves |-> IF r.success THEN 1 ELSE 0,
              required |-> 0, available |-> 0]
  /\ UNCHANGED <<totalVramGb, now, calls, unloadCall, snapshot, modelLoaded,
                 enableAutoUnload>>

\* updateModelUsage with the bug of stamping every model of the service
UpdateModelUsage_all(modelName, serviceName) ==
  LET s == findIndex(services, serviceName)
      m == IF s = 0 THEN 0 ELSE findIndex(services[s].models, modelName)
  IN
  /\ services' = IF m = 0 THEN services
                 ELSE [services EXCEPT
                         ![s].models = [j \in 1..Len(services[s].models) |->
                                          [services[s].models[j] EXCEPT
                                             !.lastUsed = now]]]
  /\ last' = [op |-> "touch", service |-> serviceName, model |-> modelName,
              success |-> (m # 0), freedVramGb |-> 0,
              notified |-> << >>, saves |-> 0,
              required |-> 0, available |-> 0]
  /\ UNCHANGED <<totalVramGb, configFile, now, calls, unloadCall, snapshot,
                 modelLoaded, enableAutoUnload>>

\* updateModelUsage
UpdateModelUsage(modelName, serviceName) ==
  LET s == findIndex(services, serviceName)
      m == IF s = 0 THEN 0 ELSE findIndex(services[s].models, modelName)
  IN
  /\ services' = IF m = 0 THEN services
                 ELSE [services EXCEPT ![s].models[m].lastUsed = now]
  /\ last' = [op |-> "touch", service |-> serviceName, model |-> modelName,
              success |-> (m # 0), freedVramGb |-> 0,
              notified |-> << >>, saves |-> 0,
              required |-> 0, available |-> 0]
  /\ UNCHANGED <<totalVramGb, configFile, now, calls, unloadCall, snapshot, modelLoaded,
                 enableAutoUnload>>

\* the setInterval callback
AutoUnload(fsOk) ==
  LET r == autoUnloadInactiveModels(services, now) IN
  /\ enableAutoUnload
  /\ services' = r.services
  /\ configFile' = IF r.acc.saves > 0
                   THEN saveServicesToConfig(r.services, configFile, fsOk)
                   ELSE configFile
  /\ last' = [op |-> "sweep", service |-> "", model |-> "",
              success |-> TRUE, freedVramGb |-> r.acc.freedVramGb,
              notified |-> r.acc.notified, saves |-> r.acc.saves,
              required |-> 0, available |-> 0]
  /\ UNCHANGED <<totalVramGb, now, calls, unloadCall, snapshot, modelLoaded,
                 enableAutoUnload>>

\* a minute passes
Tick ==
  /\ now < MaxTime
  /\ now' = now + 1
  /\ UNCHANGED <<services, totalVramGb, configFile, calls, last, unloadCall,
               snapshot, modelLoaded,
                 enableAutoUnload>>

Register ==
  \E n \in ServiceNames, u \in ServiceUrls, ms \in ModelLists,
     fsOk \in FsOutcomes :
    RegisterService(n, u, ms, fsOk)

Unload ==
  \E m \in ModelNames, n \in ServiceNames, fsOk \in FsOutcomes :
    UnloadModel(m, n, fsOk)

Touch ==
  \E m \in ModelNames, n \in ServiceNames : UpdateModelUsage(m, n)

Sweep == \E fsOk \in FsOutcomes : AutoUnload(fsOk)

Next == Register \/ Unload \/ Touch \/ Sweep \/ Tick

Spec == Init /\ [][Next]_vars

(***************************************************************************)
(* registerService interleaved at its awaits.  A call is suspended three   *)
(* times: in updateTotalVram on the GPU probe ("probe"), in getVRAMStatus  *)
(* on updateTotalVram ("status"), and in registerService on getVRAMStatus  *)
(* ("commit").  Everything else is synchronous up to its first await and   *)
(* runs between these steps.  One call per service name is in flight.      *)
(***************************************************************************)
\* no continuation is queued: a call past its probe runs on as microtasks,
\* ahead of every timer and every new request
MicrotasksDrained ==
  \A n \in ServiceNames : calls[n].pc \in {"idle", "probe"}

\* registerService is called: serviceVramUsage is computed, the probe starts
RegisterCall(serviceName, serviceUrl, models) ==
  /\ MicrotasksDrained
  /\ calls[serviceName].pc = "idle"
  /\ calls' = [calls EXCEPT ![serviceName] =
                 [pc |-> "probe", url |-> serviceUrl, models |-> models]]
  /\ UNCHANGED <<services, totalVramGb, configFile, now, last, unloadCall,
               snapshot, modelLoaded,
                 enableAutoUnload>>

\* the probe answers: updateTotalVram stores the total
ProbeDone(serviceName) ==
  /\ calls[serviceName].pc = "probe"
  /\ totalVramGb' = updateTotalVram
  /\ calls' = [calls EXCEPT ![serviceName].pc = "status"]
  /\ UNCHANGED <<services, configFile, now, last, unloadCall, snapshot, modelLoaded,
                 enableAutoUnload>>

\* getVRAMStatus resumes and computes the status from the registry as it is
StatusRead(serviceName) ==
  /\ calls[serviceName].pc = "status"
  /\ calls' = [calls EXCEPT ![serviceName] =
                 [pc |-> "commit", url |-> @.url, models |-> @.models,
                  status |-> getVRAMStatus(services, totalVramGb)]]
  /\ UNCHANGED <<services, totalVramGb, configFile, now, last, unloadCall,
               snapshot, modelLoaded,
                 enableAutoUnload>>

\* registerService resumes with that status: it rejects or commits
RegisterResume(serviceName, fsOk) ==
  /\ calls[serviceName].pc = "commit"
  /\ registerCommit(calls[serviceName].status, serviceName,
                    calls[serviceName].url, calls[serviceName].models, fsOk)
  /\ calls' = [calls EXCEPT ![serviceName] = NoCall]
  /\ UNCHANGED <<totalVramGb, now, unloadCall, snapshot, modelLoaded,
                 enableAutoUnload>>

CallStep ==
  \E n \in ServiceNames, u \in ServiceUrls, ms \in ConcModelLists :
    RegisterCall(n, u, ms)

ProbeStep == \E n \in ServiceNames : ProbeDone(n)

StatusStep == \E n \in ServiceNames : StatusRead(n)

ResumeStep ==
  \E n \in ServiceNames, fsOk \in FsOutcomes : RegisterResume(n, fsOk)

\* requests, the timer and the clock, between the microtasks
Unloads == MicrotasksDrained /\ Unload

Touches == MicrotasksDrained /\ Touch

Sweeps == MicrotasksDrained /\ Sweep

Ticks == MicrotasksDrained /\ Tick

NextConc ==
  CallStep \/ ProbeStep \/ StatusStep \/ ResumeStep
    \/ Unloads \/ Touches \/ Sweeps \/ Ticks

SpecConc == Init /\ [][NextConc]_vars

(***************************************************************************)
(* Operations run one at a time, with registrations of any number as       *)
(* amount                                                                  *)
(***************************************************************************)
RegisterSigned ==
  \E n \in ServiceNames, u \in ServiceUrls, ms \in SignedModelLists,
     fsOk \in FsOutcomes :
    RegisterService(n, u, ms, fsOk)

NextSigned == RegisterSigned \/ Unload \/ Touch \/ Sweep \/ Tick

SpecSigned == Init /\ [][NextSigned]_vars

(***************************************************************************)
(* The requests of the HTTP API run one at a time: registrations, unloads  *)
(* and get_vram_status                                                     *)
(***************************************************************************)
\* a get_vram_status request, run to completion
GetVRAMStatus ==
  /\ totalVramGb' = updateTotalVram
  /\ snapshot' = getVRAMStatus(services, totalVramGb')
  /\ UNCHANGED <<services, configFile, now, calls, last, unloadCall,
                 modelLoaded, enableAutoUnload>>

RegisterStatus ==
  \E n \in ServiceNames, u \in ServiceUrls, ms \in StatusModelLists,
     fsOk \in FsOutcomes :
    RegisterService(n, u, ms, fsOk)

NextStatus == RegisterStatus \/ Unload \/ GetVRAMStatus

SpecStatus == Init /\ [][NextStatus]_vars

(***************************************************************************)
(* Registrations and unloads on a machine whose GPU probe answers          *)
(***************************************************************************)
\* registerService, run to completion, when the probe of getVRAMStatus
\* answers with these controllers
RegisterOnGpu(controllers, serviceName, serviceUrl, models, fsOk) ==
  /\ totalVramGb' = updateTotalVramOf(controllers)
  /\ registerCommit(getVRAMStatus(services, totalVramGb'),
                    serviceName, serviceUrl, models, fsOk)
  /\ UNCHANGED <<now, calls, unloadCall, snapshot, modelLoaded,
                 enableAutoUnload>>

RegisterGpu ==
  \E c \in GpuControllers, n \in ServiceNames, u \in ServiceUrls,
     ms \in GpuModelLists, fsOk \in FsOutcomes :
    RegisterOnGpu(c, n, u, ms, fsOk)

NextGpu == RegisterGpu \/ Unload

SpecGpu == Init /\ [][NextGpu]_vars

(***************************************************************************)
(* Operations where the side effects can fail: a write of services.json    *)
(* throws, the fetch of an unload command is answered late, badly or not   *)
(* at all.  unloadModel is suspended at `await fetch` between its commit   *)
(* and its return; the other requests run meanwhile.  One unloadModel call *)
(* is in flight at a time.  The manager can be restarted.                  *)
(***************************************************************************)
\* unloadModel up to its `await fetch`, or to its return when the service or
\* the model is not found
UnloadCall(modelName, serviceName, fsOk) ==
  LET r == unloadModelInternal(services, modelName, serviceName) IN
  /\ unloadCall.pc # "fetch"
  /\ services' = r.services
  /\ configFile' = IF r.success
                   THEN saveServicesToConfig(r.services, configFile, fsOk)
                   ELSE configFile
  /\ last' = [op |-> "unload", service |-> serviceName, model |-> modelName,
              success |-> r.success, freedVramGb |-> r.freedVramGb,
              notified |-> r.notified,
              saves |-> IF r.success THEN 1 ELSE 0,
              required |-> 0, available |-> 0]
  /\ unloadCall' = [pc |-> IF r.success THEN "fetch" ELSE "returned",
                    service |-> serviceName, model |-> modelName,
                    outcome |-> "none", success |-> r.success,
                    freedVramGb |-> r.freedVramGb]
  /\ UNCHANGED <<totalVramGb, now, calls, snapshot, modelLoaded,
                 enableAutoUnload>>

\* the fetch settles: a bad answer and a rejection are logged, and
\* unloadModelInternal returns its result
FetchSettles(outcome) ==
  /\ unloadCall.pc = "fetch"
  /\ unloadCall' = [unloadCall EXCEPT !.pc = "returned",
                                      !.outcome = outcome,
                                      !.success = TRUE]
  /\ UNCHANGED <<services, totalVramGb, configFile, now, calls, last,
                 snapshot, modelLoaded,
                 enableAutoUnload>>

\* the process is started again: the constructor loads services.json
Restart ==
  /\ services' = loadServicesFromConfig(configFile, now)
  /\ totalVramGb' = 0
  /\ calls' = [n \in ServiceNames |-> NoCall]
  /\ last' = [NoOp EXCEPT !.op = "restart"]
  /\ unloadCall' = NoCall
  /\ snapshot' = NoStatus
  /\ UNCHANGED <<configFile, now, modelLoaded, enableAutoUnload>>

RegisterFaulty ==
  \E n \in ServiceNames, ms \in FaultModelLists, fsOk \in FaultFsOutcomes :
    RegisterService(n, ServiceUrl(n), ms, fsOk)

UnloadCalls ==
  \E m \in ModelNames, n \in ServiceNames, fsOk \in FaultFsOutcomes :
    UnloadCall(m, n, fsOk)

FetchStep == \E outcome \in FetchOutcomes : FetchSettles(outcome)

SweepFaulty == \E fsOk \in FaultFsOutcomes : AutoUnload(fsOk)

(***************************************************************************)
(* The two ways into registerService: the register_service tool and the    *)
(* POST /services/register route, as the services call them, with bodies   *)
(* whose models are {name, vram_usage_gb}.  What registerService computes  *)
(* from them are JavaScript numbers: a number here is the set of its one   *)
(* value, and NaN or the value of an absent property is the empty set, so  *)
(* that arithmetic on NaN gives NaN and every comparison with NaN is       *)
(* false.                                                                  *)
(***************************************************************************)
NaN == {}
Num(n) == {n}
jsAdd(a, b) == {x + y : x \in a, y \in b}
jsSub(a, b) == {x - y : x \in a, y \in b}
jsGreater(a, b) == \E x \in a, y \in b : x > y
jsMax0(a) == {Max(0, x) : x \in a}

\* the `models` of the request bodies
BodyModelLists ==
  {<<[name |-> "m1", vram_usage_gb |-> a]>> : a \in {30, 40, 70}}
    \cup {<<[name |-> "m1", vram_usage_gb |-> 30],
            [name |-> "m2", vram_usage_gb |-> 40]>>}

\* the tool's models.map(model => ({name, vramUsageGb: model.vram_usage_gb}))
toolModels(models) ==
  [i \in 1..Len(models) |->
     [name |-> models[i].name, vramUsageGb |-> Num(models[i].vram_usage_gb)]]

\* the route hands req.body.models on as it is: registerService reads
\* model.vramUsageGb of objects that have no such property
routeModels(models) ==
  [i \in 1..Len(models) |-> [name |-> models[i].name, vramUsageGb |-> NaN]]

RECURSIVE jsSumVram(_)
\* models.reduce((total, model) => total + model.vramUsageGb, 0)
jsSumVram(models) ==
  IF models = << >> THEN Num(0)
  ELSE LET n == Len(models) IN
       jsAdd(jsSumVram(SubSeq(models, 1, n - 1)), models[n].vramUsageGb)

RECURSIVE jsSumUsed(_)
\* services.reduce((total, service) => total + service.usedVramGb, 0)
jsSumUsed(svcs) ==
  IF svcs = << >> THEN Num(0)
  ELSE LET n == Len(svcs) IN
       jsAdd(jsSumUsed(SubSeq(svcs, 1, n - 1)), svcs[n].usedVramGb)

\* getVRAMStatus over JavaScript numbers
jsGetVRAMStatus(svcs, total) ==
  LET usedVramGb == jsSumUsed(svcs) IN
  [totalVramGb     |-> Num(total),
   usedVramGb      |-> usedVramGb,
   availableVramGb |->
     jsMax0(jsSub(jsSub(Num(total), usedVramGb), Num(vramReserveGb)))]

\* registerService over JavaScript numbers: the registry it leaves and the
\* result it returns
jsRegisterService(svcs, total, serviceName, serviceUrl, models, t) ==
  LET serviceVramUsage == jsSumVram(models)
      status == jsGetVRAMStatus(svcs, total)
  IN
  IF jsGreater(serviceVramUsage, status.availableVramGb)
  THEN [services |-> svcs, success |-> FALSE, saves |-> 0,
        required |-> serviceVramUsage, available |-> status.availableVramGb]
  ELSE [services |->
          MapSet(svcs,
                 [name       |-> serviceName,
                  url        |-> serviceUrl,
                  models     |-> [i \in 1..Len(models) |->
                                    [name        |-> models[i].name,
                                     vramUsageGb |-> models[i].vramUsageGb,
                                     lastUsed    |-> t]],
                  usedVramGb |-> serviceVramUsage]),
        success |-> TRUE, saves |-> 1,
        required |-> serviceVramUsage, available |-> status.availableVramGb]

\* unloadModelInternal over JavaScript numbers
jsUnloadModelInternal(svcs, modelName, serviceName) ==
  LET s == findIndex(svcs, serviceName)
      modelIndex == IF s = 0 THEN 0 ELSE findIndex(svcs[s].models, modelName)
  IN
  IF modelIndex = 0
  THEN [services |-> svcs, success |-> FALSE, freedVramGb |-> Num(0),
        notified |-> << >>]
  ELSE LET service     == svcs[s]
           freedVramGb == service.models[modelIndex].vramUsageGb
       IN
       [services |->
          [svcs EXCEPT ![s] =
             [service EXCEPT
                !.models = splice(service.models, modelIndex),
                !.usedVramGb = jsSub(service.usedVramGb, freedVramGb)]],
        success |-> TRUE, freedVramGb |-> freedVramGb,
        notified |-> <<[url |-> service.url, model_name |-> modelName]>>]

\* a registration through `via`, run to completion, with the models as
\* `via` hands them to registerService
RegisterVia(via, serviceName, serviceUrl, models) ==
  LET r == jsRegisterService(services, updateTotalVram, serviceName,
                             serviceUrl, models, now)
  IN
  /\ totalVramGb' = updateTotalVram
  /\ services' = r.services
  /\ configFile' = IF r.success
                   THEN saveServicesToConfig(r.services, configFile, TRUE)
                   ELSE configFile
  /\ last' = [op |-> via, service |-> serviceName, model |-> "",
              success |-> r.success, freedVramGb |-> Num(0),
              notified |-> << >>, saves |-> r.saves,
              required |-> r.required, available |-> r.available]
  /\ UNCHANGED <<now, calls, unloadCall, snapshot, modelLoaded,
                 enableAutoUnload>>

\* the register_service tool
RegisterTool ==
  \E n \in ServiceNames, body \in BodyModelLists :
    RegisterVia("register_service", n, ServiceUrl(n), toolModels(body))

\* POST /services/register
RegisterRoute ==
  \E n \in ServiceNames, body \in BodyModelLists :
    RegisterVia("POST /services/register", n, ServiceUrl(n),
                routeModels(body))

\* POST /vram/unload, run to completion
UnloadRoute ==
  \E m \in ModelNames, n \in ServiceNames :
    LET r == jsUnloadModelInternal(services, m, n) IN
    /\ services' = r.services
    /\ configFile' = IF r.success
                     THEN saveServicesToConfig(r.services, configFile, TRUE)
                     ELSE configFile
    /\ last' = [op |-> "POST /vram/unload", service |-> n, model |-> m,
                success |-> r.success, freedVramGb |-> r.freedVramGb,
                notified |-> r.notified,
                saves |-> IF r.success THEN 1 ELSE 0,
                required |-> Num(0), available |-> Num(0)]
    /\ UNCHANGED <<totalVramGb, now, calls, unloadCall, snapshot,
                   modelLoaded, enableAutoUnload>>

NextHttp == RegisterTool \/ RegisterRoute \/ UnloadRoute

SpecHttp == Init /\ [][NextHttp]_vars

(***************************************************************************)
(* The manager and the Stable Diffusion service.  The service registers    *)
(* its model, loads it on demand in generateImage and unloads it when the  *)
(* manager's unload command arrives; other services register beside it.    *)
(***************************************************************************)
\* registerWithMCPManager: the service announces its one model; the
\* manager books the amount as registerService is given it
RegisterSd ==
  \E u \in ServiceUrls, fsOk \in FsOutcomes :
    RegisterService(SdServiceName, u, SdModels, fsOk)

\* another service registers
RegisterBeside ==
  \E n \in ServiceNames \ {SdServiceName}, u \in ServiceUrls,
     ms \in FaultModelLists, fsOk \in FsOutcomes :
    RegisterService(n, u, ms, fsOk)

\* generateImage: the model is loaded if it is not
SdGenerateImage ==
  /\ modelLoaded' = TRUE
  /\ UNCHANGED <<services, totalVramGb, configFile, now, calls, last,
                 unloadCall, snapshot, enableAutoUnload>>

\* the manager's unload command reaches the service's POST /models/unload:
\* sdService.unloadModel() drops the model and the route answers 200
SdModelsUnload ==
  /\ unloadCall.pc = "fetch"
  /\ unloadCall.service = SdServiceName
  /\ modelLoaded' = FALSE
  /\ unloadCall' = [unloadCall EXCEPT !.pc = "returned",
                                      !.outcome = "ok",
                                      !.success = TRUE]
  /\ UNCHANGED <<services, totalVramGb, configFile, now, calls, last,
                 snapshot, enableAutoUnload>>

\* the unload command to another service settles
FetchBeside ==
  /\ unloadCall.pc = "fetch"
  /\ unloadCall.service # SdServiceName
  /\ FetchStep

UnloadCallsSd ==
  \E m \in ModelNames, n \in ServiceNames, fsOk \in FsOutcomes :
    UnloadCall(m, n, fsOk)

NextSd ==
  RegisterSd \/ RegisterBeside \/ UnloadCallsSd \/ SdModelsUnload
    \/ FetchBeside \/ SdGenerateImage

SpecSd == Init /\ [][NextSd]_vars

(***************************************************************************)
(* The serial operations and restarts of the manager                       *)
(***************************************************************************)
NextReload == Next \/ Restart

SpecReload == Init /\ [][NextReload]_vars

(***************************************************************************)
(* The sweep timer followed to the end: the manager starts with            *)
(* ENABLE_AUTO_UNLOAD set either way, services register and report usage   *)
(* up to the minute LastActivity, and the clock runs on until every lease  *)
(* left behind is older than the timeout.  setInterval keeps calling the   *)
(* sweep (when it was started) and time keeps passing: these two are the   *)
(* fair steps.                                                             *)
(***************************************************************************)
InitLive ==
  /\ services = << >>
  /\ totalVramGb = 0
  /\ configFile = NoFile
  /\ now = 0
  /\ calls = [n \in ServiceNames |-> NoCall]
  /\ last = NoOp
  /\ unloadCall = NoCall
  /\ snapshot = NoStatus
  /\ modelLoaded = FALSE
  /\ enableAutoUnload \in BOOLEAN

RegisterLive ==
  /\ now <= LastActivity
  /\ \E n \in ServiceNames, ms \in LiveModelLists, fsOk \in FsOutcomes :
       RegisterService(n, ServiceUrl(n), ms, fsOk)

TouchLive ==
  /\ now <= LastActivity
  /\ Touch

TickLive ==
  /\ now < LastActivity + unloadTimeoutMinutes + 1
  /\ now' = now + 1
  /\ UNCHANGED <<services, totalVramGb, configFile, calls, last, unloadCall,
                 snapshot, modelLoaded, enableAutoUnload>>

NextLive == RegisterLive \/ TouchLive \/ Unload \/ Sweep \/ TickLive

SpecLive ==
  InitLive /\ [][NextLive]_vars /\ WF_vars(Sweep) /\ WF_vars(TickLive)

NextFaults ==
  RegisterFaulty \/ UnloadCalls \/ FetchStep \/ SweepFaulty \/ Tick
    \/ Restart

SpecFaults == Init /\ [][NextFaults]_vars

(***************************************************************************)
(* Vocabulary of the properties                                            *)
(***************************************************************************)
RECURSIVE LoadedSum(_)
\* the sum of the amounts of all the leases the registry holds
LoadedSum(svcs) ==
  IF svcs = << >> THEN 0
  ELSE SumVram(Head(svcs).models) + LoadedSum(Tail(svcs))

\* TotalCapacity - ReserveMargin
Capacity == updateTotalVram - vramReserveGb

Registered(svcs, n) == findIndex(svcs, n) # 0

\* the entry of service n, which is registered
Entry(svcs, n) == svcs[findIndex(svcs, n)]

\* a models array without its timestamps: the leases' names and amounts
LeaseList(models) ==
  [i \in 1..Len(models) |->
     [name |-> models[i].name, vramUsageGb |-> models[i].vramUsageGb]]

\* this step is a complete registerService(n, _, ms)
RegisterStep(n, ms) ==
  \E u \in ServiceUrls, fsOk \in FsOutcomes : RegisterService(n, u, ms, fsOk)

\* the <<n, ms>> of which this step is a complete registerService(n, _, ms);
\* such a step leaves its name and its requested total in last'
RegisterSteps ==
  IF last'.op = "register"
  THEN {r \in {last'.service} \X (ModelLists \cup SignedModelLists) :
          /\ SumVram(r[2]) = last'.required
          /\ RegisterStep(r[1], r[2])}
  ELSE {}

\* this step is a complete unloadModel(m, n)
UnloadStep(m, n) ==
  /\ last'.op = "unload"
  /\ last'.model = m
  /\ last'.service = n
  /\ \E fsOk \in FsOutcomes : UnloadModel(m, n, fsOk)

\* this step is a complete updateModelUsage(m, n)
TouchStep(m, n) ==
  /\ last'.op = "touch"
  /\ last'.model = m
  /\ last'.service = n
  /\ UpdateModelUsage(m, n)

\* service n holds no model named m
Unknown(svcs, m, n) ==
  \/ ~Registered(svcs, n)
  \/ findIndex(Entry(svcs, n).models, m) = 0

\* services.json as a write of the registry svcs leaves it
Saved(svcs) == [exists |-> TRUE, json |-> serialize(svcs)]

\* the registry as services.json holds it: names, URLs, lease names, amounts
LeaseLists(svcs) == serialize(svcs)

\* a registry without its timestamps: the collaborators' names, URLs, the
\* leases' names and amounts, and the used totals
WithoutTimestamps(svcs) ==
  [i \in 1..Len(svcs) |->
     [name       |-> svcs[i].name,
      url        |-> svcs[i].url,
      leases     |-> LeaseList(svcs[i].models),
      usedVramGb |-> svcs[i].usedVramGb]]

\* what a registration would find available in the registry svcs
AvailableIn(svcs) == getVRAMStatus(svcs, updateTotalVram).availableVramGb

\* how many of the unload commands sent went to url and named model m
Commands(sent, url, m) ==
  Cardinality({k \in 1..Len(sent) :
                 sent[k].url = url /\ sent[k].model_name = m})

\* how many leases named m the models array holds
Held(models, m) ==
  Cardinality({i \in 1..Len(models) : models[i].name = m})

\* service n holds a lease named m that was last used at t
HeldAt(n, m, t) ==
  \E s \in 1..Len(services) :
    /\ services[s].name = n
    /\ \E i \in 1..Len(services[s].models) :
         /\ services[s].models[i].name = m
         /\ services[s].models[i].lastUsed = t

\* some service holds a lease that was last used at t
StampedAt(t) ==
  \E n \in ServiceNames, m \in ModelNames : HeldAt(n, m, t)

\* the headroom a registration finds
AvailableNow == getVRAMStatus(services, updateTotalVram).availableVramGb

\* the leases of the collaborators other than n, as <<service, model>> indices
OtherLeases(svcs, n) ==
  UNION {{<<s, i>> : i \in 1..Len(svcs[s].models)} :
           s \in {t \in 1..Len(svcs) : svcs[t].name # n}}

LeaseAt(svcs, l) == svcs[l[1]].models[l[2]]

RECURSIVE SumLeases(_, _)
SumLeases(svcs, S) ==
  IF S = {} THEN 0
  ELSE LET l == CHOOSE x \in S : TRUE IN
       LeaseAt(svcs, l).vramUsageGb + SumLeases(svcs, S \ {l})

\* the eviction order: staler first, then insertion order (the code knows
\* no priority tier: every lease is of the same tier)
EvictBefore(svcs, k, l) ==
  \/ LeaseAt(svcs, k).lastUsed < LeaseAt(svcs, l).lastUsed
  \/ /\ LeaseAt(svcs, k).lastUsed = LeaseAt(svcs, l).lastUsed
     /\ \/ k[1] < l[1]
        \/ k[1] = l[1] /\ k[2] < l[2]

\* the shortest prefix of the eviction order that frees at least deficit
Victims(svcs, n, deficit) ==
  {l \in OtherLeases(svcs, n) :
     SumLeases(svcs, {k \in OtherLeases(svcs, n) : EvictBefore(svcs, k, l)})
       < deficit}

RECURSIVE Without(_, _, _)
\* models without the elements at the indices K, from index i on
Without(models, i, K) ==
  IF i > Len(models) THEN << >>
  ELSE (IF i \in K THEN << >> ELSE <<models[i]>>) \o Without(models, i + 1, K)

(***************************************************************************)
(* C1: with one operation at a time, the amounts of all the leases sum to  *)
(* at most TotalCapacity - ReserveMargin in every reachable state.         *)
(***************************************************************************)
LedgerInvariant == LoadedSum(services) <= Capacity

\* two services fill the capacity to the last unit
LedgerInvariantWitness ==
  /\ Len(services) = 2
  /\ LoadedSum(services) = Capacity
  /\ last.op = "register" /\ last.success

(***************************************************************************)
(* C2: two registrations in flight at once never both commit on the same   *)
(* headroom: once both have completed, the leases still sum to at most     *)
(* TotalCapacity - ReserveMargin.                                          *)
(***************************************************************************)
NoDoubleBooking ==
  (\A n \in ServiceNames : calls[n].pc = "idle")
    => LoadedSum(services) <= Capacity

(***************************************************************************)
(* C3: a registration that asks for more than TotalCapacity - ReserveMargin*)
(* is rejected, and the registry and the file are as before: nothing is    *)
(* written and nothing is sent.                                            *)
(***************************************************************************)
OversizedRegistrationRejected ==
  [][\A r \in RegisterSteps :
       SumVram(r[2]) > Capacity
         => /\ ~last'.success
            /\ services' = services
            /\ configFile' = configFile
            /\ last'.saves = 0
            /\ last'.notified = << >>]_vars

(***************************************************************************)
(* C4: a registration of amount A that finds available < A is accepted,    *)
(* after evicting leases of other collaborators, whenever those leases     *)
(* total at least the deficit A - available.                               *)
(***************************************************************************)
AdmissionWithEviction ==
  [][\A r \in RegisterSteps :
       ( /\ AvailableNow < SumVram(r[2])
         /\ SumLeases(services, OtherLeases(services, r[1]))
              >= SumVram(r[2]) - AvailableNow )
         => last'.success]_vars

(***************************************************************************)
(* C5: the leases evicted to admit a registration are exactly the shortest *)
(* prefix, freeing at least the deficit, of the other collaborators'       *)
(* leases in eviction order; no other lease is evicted.                    *)
(***************************************************************************)
VictimsAreShortestPrefix ==
  [][\A r \in RegisterSteps :
       SumLeases(services, OtherLeases(services, r[1]))
         >= SumVram(r[2]) - AvailableNow
         => \A s \in 1..Len(services) :
              services[s].name # r[1]
                => /\ Registered(services', services[s].name)
                   /\ LeaseList(Entry(services', services[s].name).models)
                        = LeaseList(Without(services[s].models, 1,
                            {i \in 1..Len(services[s].models) :
                               <<s, i>> \in Victims(services, r[1],
                                   SumVram(r[2]) - AvailableNow)}))]_vars

(***************************************************************************)
(* C6: after one sweep no lease that was idle longer than the timeout when *)
(* the sweep started is still held, however many of them a collaborator    *)
(* holds; the leases that were not idle are all still held.                *)
(***************************************************************************)
SweepEvictsEveryIdleLease ==
  [][Sweep
       => /\ Len(services') = Len(services)
          /\ \A s \in 1..Len(services) :
               services'[s].models =
                 Without(services[s].models, 1,
                   {i \in 1..Len(services[s].models) :
                      isInactive(services[s].models[i], now)})]_vars

(***************************************************************************)
(* C7: every lease a sweep evicts is idle longer than the timeout at the   *)
(* moment it is evicted: what a sweep leaves of a collaborator's leases is *)
(* what it held before without some of its idle leases.                    *)
(***************************************************************************)
SweepEvictsOnlyIdleLeases ==
  [][Sweep
       => /\ Len(services') = Len(services)
          /\ \A s \in 1..Len(services) :
               \E K \in SUBSET {i \in 1..Len(services[s].models) :
                                  isInactive(services[s].models[i], now)} :
                 services'[s].models = Without(services[s].models, 1, K)]_vars

(***************************************************************************)
(* C8: a sweep that fires while a registerService call of a collaborator   *)
(* is in its await, between the call and its commit, removes no lease of   *)
(* that collaborator and sends it no unload command.                       *)
(***************************************************************************)
SweepSparesRegisteringService ==
  [][Sweep
       => \A n \in ServiceNames :
            (calls[n].pc # "idle" /\ Registered(services, n))
              => /\ Entry(services', n) = Entry(services, n)
                 /\ \A k \in 1..Len(last'.notified) :
                      last'.notified[k].url # Entry(services, n).url]_vars

(***************************************************************************)
(* C9: a registered collaborator that registers again the very leases it   *)
(* holds is accepted: the check counts only its net new commitment.        *)
(***************************************************************************)
IdenticalReRegistrationAccepted ==
  [][\A r \in RegisterSteps :
       ( /\ Registered(services, r[1])
         /\ LeaseList(Entry(services, r[1]).models) = r[2]
         /\ LoadedSum(services) <= Capacity )
         => last'.success]_vars

(***************************************************************************)
(* C10: a successful registration of a name that is already registered     *)
(* replaces its entry: the number of collaborators is unchanged, one entry *)
(* has the name, its leases are exactly the registered list, its used      *)
(* total is the list's sum and every lease's last-used time is the time of *)
(* the registration.                                                       *)
(***************************************************************************)
ReRegistrationReplaces ==
  [][\A r \in RegisterSteps :
       (Registered(services, r[1]) /\ last'.success)
         => /\ Len(services') = Len(services)
            /\ Cardinality({s \in 1..Len(services') :
                               services'[s].name = r[1]}) = 1
            /\ LeaseList(Entry(services', r[1]).models) = r[2]
            /\ Entry(services', r[1]).usedVramGb = SumVram(r[2])
            /\ \A i \in 1..Len(Entry(services', r[1]).models) :
                 Entry(services', r[1]).models[i].lastUsed = now]_vars

\* svc-a, registered before svc-b, has just been registered again, later
\* than its first registration and with other leases than svc-b's
ReRegistrationWitness ==
  /\ Len(services) = 2
  /\ services[1].name = "svc-a"
  /\ last.op = "register" /\ last.service = "svc-a" /\ last.success
  /\ Len(services[1].models) = 2
  /\ services[1].models[1].lastUsed = now
  /\ now > 0

(***************************************************************************)
(* C11: a registration that asks for no more than is available is accepted *)
(* at once and evicts nothing: every other collaborator keeps its entry,   *)
(* with the same leases of the same amounts, and no unload command is sent.*)
(***************************************************************************)
AdmissionWithoutEviction ==
  [][(last'.op = "register"
        /\ last'.required <= Capacity - LoadedSum(services)) =>
       \A r \in RegisterSteps :
         /\ last'.success
         /\ last'.notified = << >>
         /\ \A s \in 1..Len(services) :
              services[s].name # r[1] =>
                /\ Registered(services', services[s].name)
                /\ Entry(services', services[s].name) = services[s]]_vars

\* a second collaborator was admitted into exactly the room that was left
AdmissionWithoutEvictionWitness ==
  /\ last.op = "register"
  /\ last.success
  /\ last.required > 0
  /\ last.required = last.available
  /\ Len(services) = 2
  /\ \E s \in 1..2 :
       services[s].name # last.service /\ services[s].models # << >>

(***************************************************************************)
(* C12: release is idempotent: unloading again the model that the last     *)
(* unload released returns success with nothing freed, and changes nothing *)
(* in the registry.                                                        *)
(***************************************************************************)
ReleaseIsIdempotent ==
  [][\A m \in ModelNames, n \in ServiceNames :
       ( /\ last.op = "unload"
         /\ last.success
         /\ last.model = m
         /\ last.service = n
         /\ Unknown(services, m, n)
         /\ UnloadStep(m, n) ) =>
           /\ last'.success
           /\ last'.freedVramGb = 0
           /\ services' = services]_vars

(***************************************************************************)
(* C13: an unload that names a service that is not registered, or a model  *)
(* the service does not hold, fails as not found with nothing freed; the   *)
(* registry is unchanged, services.json is not written and no unload       *)
(* command is sent.                                                        *)
(***************************************************************************)
UnknownUnloadRefused ==
  [][\A m \in ModelNames, n \in ServiceNames :
       (Unknown(services, m, n) /\ UnloadStep(m, n)) =>
         /\ ~last'.success
         /\ last'.freedVramGb = 0
         /\ services' = services
         /\ configFile' = configFile
         /\ last'.saves = 0
         /\ last'.notified = << >>]_vars

\* an unload was refused for a model its service does not hold, while the
\* service holds another
UnknownUnloadWitness ==
  /\ last.op = "unload"
  /\ ~last.success
  /\ Registered(services, last.service)
  /\ Entry(services, last.service).models # << >>
  /\ Unknown(services, last.model, last.service)

(***************************************************************************)
(* C14: a side effect that fails does not unwind what was committed.  A    *)
(* registration whose write of services.json throws is still accepted and  *)
(* its leases are in the registry; an unload or a sweep whose write throws *)
(* still removes its leases, and what they used is available to the next   *)
(* registration; an unload command that is answered badly or not delivered *)
(* leaves the registry as the commit left it.                              *)
(***************************************************************************)
SideEffectFailuresKeepCommit ==
  [][/\ \A n \in ServiceNames, ms \in FaultModelLists :
          ( /\ last'.op = "register"
            /\ SumVram(ms) <= AvailableNow
            /\ RegisterService(n, ServiceUrl(n), ms, FALSE) ) =>
              /\ last'.success
              /\ Registered(services', n)
              /\ LeaseList(Entry(services', n).models) = ms
              /\ Entry(services', n).usedVramGb = SumVram(ms)
     /\ \A m \in ModelNames, n \in ServiceNames :
          ( /\ last'.op = "unload"
            /\ ~Unknown(services, m, n)
            /\ UnloadCall(m, n, FALSE) ) =>
              LET before == Entry(services, n).models
                  freed  == before[findIndex(before, m)].vramUsageGb
              IN
              /\ last'.success
              /\ Len(Entry(services', n).models) = Len(before) - 1
              /\ LoadedSum(services') = LoadedSum(services) - freed
              /\ AvailableIn(services') = AvailableNow + freed
     /\ (last'.op = "sweep" /\ AutoUnload(FALSE)) =>
          /\ LoadedSum(services') = LoadedSum(services) - last'.freedVramGb
          /\ AvailableIn(services') = AvailableNow + last'.freedVramGb
     /\ \A outcome \in {"notOk", "throws"} :
          FetchSettles(outcome) => services' = services
    ]_vars

\* an unload whose write threw and whose command was not delivered has
\* returned: the model is out of the registry and still in services.json
SideEffectFailureWitness ==
  /\ unloadCall.pc = "returned"
  /\ unloadCall.outcome = "throws"
  /\ last.op = "unload"
  /\ last.success
  /\ last.service = unloadCall.service
  /\ last.model = unloadCall.model
  /\ Unknown(services, last.model, last.service)
  /\ configFile # Saved(services)

(***************************************************************************)
(* C15: when the fetch of the unload command throws during an explicit     *)
(* unload, the result the unload returns reports success = false.          *)
(***************************************************************************)
UnloadFailureReported ==
  (unloadCall.pc = "returned" /\ unloadCall.outcome = "throws")
    => ~unloadCall.success

(***************************************************************************)
(* C16: no operation waits for the collaborator's answer to an unload      *)
(* command: an explicit unload that has committed has also returned, with  *)
(* no answer needed.                                                       *)
(***************************************************************************)
NoOperationWaitsOnNotifier == unloadCall.pc # "fetch"

(***************************************************************************)
(* C17: a status is a consistent view of one state of the registry: used   *)
(* is the sum of the amounts of all the leases, available is               *)
(* TotalCapacity - ReserveMargin - used, and the services' used values sum *)
(* to used.                                                                *)
(***************************************************************************)
SnapshotIsConsistent ==
  [][GetVRAMStatus =>
       /\ snapshot'.usedVramGb = LoadedSum(services)
       /\ snapshot'.availableVramGb = Capacity - snapshot'.usedVramGb
       /\ SumUsed(snapshot'.services) = snapshot'.usedVramGb]_vars

PersistenceRoundTrip ==
  [][(Restart /\ configFile = Saved(services)) =>
       WithoutTimestamps(services') = WithoutTimestamps(services)]_vars

\* a restart loaded two services with leases, after the clock had moved
PersistenceRoundTripWitness ==
  /\ last.op = "restart"
  /\ now > 0
  /\ Len(services) = 2
  /\ \A s \in 1..2 : services[s].usedVramGb > 0
  /\ \A s \in 1..2 : services[s].models[1].lastUsed = now
  /\ configFile = Saved(services)

(***************************************************************************)
(* C20: eviction deletes no record: after an unload or a sweep every       *)
(* service is still registered and still holds a record for each of the    *)
(* leases it held.                                                         *)
(***************************************************************************)
EvictionKeepsRecords ==
  [][(last'.op \in {"unload", "sweep"} /\ (Unload \/ Sweep)) =>
       /\ Len(services') = Len(services)
       /\ \A s \in 1..Len(services) :
            Len(services'[s].models) = Len(services[s].models)]_vars

(***************************************************************************)
(* C21: the VRAM the services have committed never exceeds                 *)
(* MAX_VRAM_USAGE_GB.                                                      *)
(***************************************************************************)
MaxUsageEnforced == SumUsed(services) <= maxVramUsageGb

(***************************************************************************)
(* C22: every lease in the registry has an amount of at least zero.        *)
(***************************************************************************)
AmountsNonNegative ==
  \A s \in 1..Len(services) :
    \A i \in 1..Len(services[s].models) :
      services[s].models[i].vramUsageGb >= 0

(***************************************************************************)
(* C23: whenever the Stable Diffusion service is registered, has its model *)
(* loaded and no unload command is on its way to it, the registry holds a  *)
(* lease for that model.                                                   *)
(***************************************************************************)
LoadedModelIsLeased ==
  ( /\ modelLoaded
    /\ Registered(services, SdServiceName)
    /\ unloadCall.pc # "fetch" )
    => ~Unknown(services, MODEL_ID, SdServiceName)

(***************************************************************************)
(* C24: commit before notify.  When an unload or a sweep has sent its      *)
(* unload commands, every lease they name is already out of the registry   *)
(* and a write of services.json was attempted for each; a command is sent  *)
(* for no lease that stays, and for each lease removed exactly one command *)
(* is sent, to the URL of the service that held it, naming it.             *)
(***************************************************************************)
CommitBeforeNotify ==
  [][(last'.op \in {"unload", "sweep"} /\ (UnloadCalls \/ SweepFaulty)) =>
       /\ Len(services') = Len(services)
       /\ \A s \in 1..Len(services), m \in ModelNames :
            Commands(last'.notified, services[s].url, m)
              = Held(services[s].models, m) - Held(services'[s].models, m)
       /\ \A k \in 1..Len(last'.notified) :
            \E s \in 1..Len(services) :
              services[s].url = last'.notified[k].url
       /\ last'.saves = Len(last'.notified)
       /\ (unloadCall'.pc = "fetch" /\ unloadCall.pc # "fetch") =>
            /\ Len(last'.notified) = 1
            /\ last'.notified[1].model_name = unloadCall'.model]_vars

\* one sweep removed a lease of each of two services and sent each service
\* its command
CommitBeforeNotifyWitness ==
  /\ last.op = "sweep"
  /\ Len(last.notified) = 2
  /\ last.notified[1].url # last.notified[2].url
  /\ \A s \in 1..Len(services) : services[s].models = << >>

UnloadFrame ==
  [][\A m \in ModelNames, n \in ServiceNames :
       (UnloadStep(m, n) /\ ~Unknown(services, m, n)) =>
         LET s == findIndex(services, n)
             i == findIndex(services[s].models, m)
             a == services[s].models[i].vramUsageGb
         IN
         /\ last'.success
         /\ last'.freedVramGb = a
         /\ Len(services') = Len(services)
         /\ services'[s].name = n
         /\ services'[s].url = services[s].url
         /\ services'[s].usedVramGb = services[s].usedVramGb - a
         /\ SumUsed(services') = SumUsed(services) - a
         /\ services'[s].models = Without(services[s].models, 1, {i})
         /\ \A t \in 1..Len(services) \ {s} : services'[t] = services[t]]_vars

\* an unloadModel removed one of two leases of a service, beside another
\* service that holds a lease
UnloadFrameWitness ==
  /\ last.op = "unload"
  /\ last.success
  /\ last.freedVramGb > 0
  /\ Len(services) = 2
  /\ \A s \in 1..Len(services) : services[s].models # << >>

(***************************************************************************)
(* C27: updateModelUsage of a model the service holds sets the lastUsed of *)
(* that lease to the current time and changes no other timestamp, no       *)
(* amount, no used total and no lease list; of an unknown service or model *)
(* it returns false and changes nothing; in both cases services.json       *)
(* stays as it was.                                                        *)
(***************************************************************************)
TouchFrame ==
  [][\A m \in ModelNames, n \in ServiceNames :
       TouchStep(m, n) =>
         /\ configFile' = configFile
         /\ last'.saves = 0
         /\ WithoutTimestamps(services') = WithoutTimestamps(services)
         /\ IF Unknown(services, m, n)
            THEN ~last'.success /\ services' = services
            ELSE LET s == findIndex(services, n)
                     i == findIndex(services[s].models, m)
                 IN
                 /\ last'.success
                 /\ services'[s].models[i].lastUsed = now
                 /\ \A t \in 1..Len(services) :
                      \A j \in 1..Len(services[t].models) :
                        <<t, j>> # <<s, i>> =>
                          services'[t].models[j].lastUsed
                            = services[t].models[j].lastUsed]_vars

\* a touch stamped one of two leases of a service and left the other stale
TouchFrameWitness ==
  /\ last.op = "touch"
  /\ last.success
  /\ \E s \in 1..Len(services) :
       \E i, j \in 1..Len(services[s].models) :
         /\ services[s].models[i].lastUsed = now
         /\ services[s].models[j].lastUsed < now

(***************************************************************************)
(* C28: a POST /services/register has the outcome the register_service     *)
(* tool has for the same body in the same state: the same acceptance or    *)
(* refusal and the same registry after it.                                 *)
(***************************************************************************)
RouteMatchesTool ==
  [][\A n \in ServiceNames, body \in BodyModelLists :
       ( /\ last'.op = "POST /services/register"
         /\ last'.service = n
         /\ RegisterVia("POST /services/register", n, ServiceUrl(n),
                        routeModels(body)) ) =>
         LET r == jsRegisterService(services, updateTotalVram, n,
                                    ServiceUrl(n), toolModels(body), now)
         IN
         /\ last'.success = r.success
         /\ services' = r.services]_vars

(***************************************************************************)
(* C29: in every state each service's usedVramGb is the sum of the amounts *)
(* of the leases it holds, and the used total of the status is the sum of  *)
(* the services' usedVramGb, hence the sum of all the leases' amounts.     *)
(***************************************************************************)
UsedIsSumOfLeases ==
  /\ \A s \in 1..Len(services) :
       services[s].usedVramGb
         = SumLeases(services, {<<s, i>> : i \in 1..Len(services[s].models)})
  /\ getVRAMStatus(services, updateTotalVram).usedVramGb
       = SumLeases(services,
                   UNION {{<<s, i>> : i \in 1..Len(services[s].models)} :
                            s \in 1..Len(services)})

\* the manager restarted on a file in which one service holds two leases
\* and another service one
UsedIsSumOfLeasesWitness ==
  /\ last.op = "restart"
  /\ Len(services) = 2
  /\ \E s \in 1..Len(services) : Len(services[s].models) = 2
  /\ \A s \in 1..Len(services) : services[s].usedVramGb > 0

(***************************************************************************)
(* C30: with auto-unload enabled and the sweep timer and the clock fair,   *)
(* the leases last used at any one time are eventually no longer held with *)
(* that time: each is evicted, unless it is touched or registered again    *)
(* later; with auto-unload disabled no sweep ever runs.                    *)
(***************************************************************************)
EventualReclamation ==
  /\ \A t \in 0..LastActivity :
       (enableAutoUnload /\ StampedAt(t)) ~> ~StampedAt(t)
  /\ [](~enableAutoUnload => last.op # "sweep")

\* past the last activity a sweep has evicted a lease and neither of the
\* two services holds one any more
EventualReclamationWitness ==
  /\ enableAutoUnload
  /\ now > LastActivity
  /\ last.op = "sweep"
  /\ last.freedVramGb > 0
  /\ Len(services) = 2
  /\ \A s \in 1..Len(services) : services[s].models = << >>

====
